---- MODULE Spec2Model ----
(***************************************************************************)
(* State-machine model of the Firefox debug adapter session                *)
(* (FirefoxDebugSession, src/unnamed/part_000), its frame adapter          *)
(* (src/src/adapter/adapter/frame.ts) and the collaborators it drives.     *)
(*                                                                         *)
(* JavaScript runs one handler at a time; promise reactions (microtasks)   *)
(* run to completion before the next I/O event is delivered.  The model    *)
(* keeps that order: the internal steps (StartWork, Diff, Settle, Respond) *)
(* are promise reactions, and every I/O handler is guarded by              *)
(* ~MicrotaskPending.                                                      *)
(***************************************************************************)
EXTENDS Integers, Sequences, FiniteSets, TLC

\* ---------------------------------------------------------------- bounds
MaxThreads == 2
MaxSources == 2
MaxRequests == 2
MaxLine == 2
MaxLen == 2
MaxFrames == 2
MaxStack == 2
MaxProviders == 2
MaxFetching == 1

\* Source paths the front end asks breakpoints for.
Paths == {"/a.js"}

\* JavaScript's undefined in a slot of a number array (lines are >= 1).
Undefined == 0

Lines == 1..MaxLine

\* The line lists a setBreakpoints request carries: one entry per source
\* line that has a breakpoint in the editor, in any order.
LineLists ==
    { s \in UNION { [1..n -> Lines] : n \in 0..MaxLen } :
        \A i, j \in DOMAIN s : i # j => s[i] # s[j] }

\* args.breakpoints of a setBreakpoints request: the property is optional
\* in DebugProtocol.SetBreakpointsArguments; when it is there it lists the
\* source breakpoints, of which the handler reads the line.
SourceBreakpoints(defined, lines) ==
    [ defined |-> defined,
      list |-> [ i \in 1..Len(lines) |-> [ line |-> lines[i] ] ] ]

\* What args.breakpoints can be in a request that carries args.lines =
\* lines: missing, the same lines, or the lines of another revision of the
\* file (every breakpoint on the mirrored line).
BreakpointLists(lines) ==
    { SourceBreakpoints(FALSE, << >>),
      SourceBreakpoints(TRUE, lines),
      SourceBreakpoints(TRUE, [ i \in 1..Len(lines) |->
                                  MaxLine + 1 - lines[i] ]) }

VARIABLES
    nextThreadId,            \* part_000:14
    threadsById,             \* part_000:15  (set of live thread ids)
    breakpointsBySourceUrl,  \* part_000:16  url -> id of the args object, 0 = absent
    sources,                 \* ThreadAdapter.sources: thread id -> Seq(source adapter)
    argsLines,               \* heap: args.lines of request i (a mutable array)
    requested,               \* history: the lines request i asked for
    sourceUrl,               \* SourceAdapter.actor.url, by source adapter
    currentBreakpoints,      \* SourceAdapter.currentBreakpoints: a promise id
    recons,                  \* the reconciliations (calls of setBreakpointsOnSourceActor)
    response,                \* the setBreakpoints responses sent, by request
    threadState,             \* thread controller: "running" | "paused"
    autoPaused,              \* thread controller: paused by an interrupt of ours
    workQueue,               \* thread controller: queued work units
    currentWork,             \* thread controller: the work unit running, 0 = none
    ackLog,                  \* history: what the ack that created each breakpoint actor carried
    nextFrameId,             \* part_000:18
    framesById,              \* part_000:19
    nextVariablesProviderId, \* part_000:21
    variablesProvidersById,  \* part_000:22
    issued,                  \* history: what was registered, per registry, in order
    removed,                 \* history: handles removed, per registry
    lastResponse,            \* the response the last front-protocol request got
    resumeMark,              \* history: how many handles were issued before the last resume
    disconnect,              \* disconnectRequest: detach promises and responses
    launcher,                \* launchFirefox: its inputs and how its promise settled
    connecting,              \* waitForSocket / tryConnect
    stackframe,              \* FrameAdapter.getStackframe: a frame and its conversion
    fetching,                \* requests to the debuggee whose promise is not yet settled, oldest first
    registeredFrames         \* the Registry<FrameAdapter> that frame adapters register in

bpVars == << breakpointsBySourceUrl, sources, argsLines, requested, sourceUrl,
             currentBreakpoints, recons, response, workQueue, currentWork,
             ackLog >>
thVars == << threadState, autoPaused >>
regVars == << nextFrameId, framesById, nextVariablesProviderId,
              variablesProvidersById >>
frontVars == << lastResponse, resumeMark >>
farVars == << disconnect, launcher, connecting, stackframe, fetching,
             registeredFrames >>
vars == << nextThreadId, threadsById, bpVars, thVars, regVars, issued, removed,
           frontVars, farVars >>

\* ------------------------------------------------------ JavaScript arrays
\* Arrays are sequences; a[i] of the code is arr[i + 1] here.

\* Array.prototype.indexOf: the first 0-based index holding x, or -1.
indexOf(arr, x) ==
    IF \E i \in 1..Len(arr) : arr[i] = x
    THEN (CHOOSE i \in 1..Len(arr) :
            arr[i] = x /\ \A j \in 1..(i - 1) : arr[j] # x) - 1
    ELSE -1

\* arr[i] = v on a JavaScript array: an index past the end grows the array
\* and leaves holes (pad) in between.
SetAt(arr, i, v, pad) ==
    [ k \in 1..(IF i + 1 > Len(arr) THEN i + 1 ELSE Len(arr)) |->
        IF k = i + 1 THEN v ELSE IF k <= Len(arr) THEN arr[k] ELSE pad ]

Range(s) == { s[i] : i \in DOMAIN s }

\* ------------------------------------------------------ breakpoint adapter
BreakpointAdapter(requestedLine, actualLine, actor) ==
    [ requestedLine |-> requestedLine, actualLine |-> actualLine, actor |-> actor ]

\* A hole of the sparse array newBreakpoints.
Hole == BreakpointAdapter(0, 0, 0)

\* ------------------------------------------------------------- promises
\* Promise 0 is the resolved empty list a new SourceAdapter starts with;
\* promise r > 0 is the result of reconciliation r.
PromiseState(p) == IF p = 0 THEN "fulfilled" ELSE recons[p].state
PromiseValue(p) == IF p = 0 THEN << >> ELSE recons[p].newBreakpoints

\* ------------------------------------------------- reconciliation records
\* One record per call of setBreakpointsOnSourceActor.  pc: "queued" (waiting
\* in runOnPausedThread), "waiting" (work begun, .then registered on the
\* previous currentBreakpoints), "diffed" (delete/set requests issued),
\* "done" (result settled and resume invoked).
NewRecon(breakpointsToSet, sourceAdapter, threadActor, request, responds) ==
    [ thread |-> threadActor, sourceAdapter |-> sourceAdapter,
      breakpointsToSet |-> breakpointsToSet,
      request |-> request, responds |-> responds,
      pc |-> "queued", base |-> 0,
      oldBreakpoints |-> << >>, newBreakpoints |-> << >>,
      removedIssued |-> {}, removedPending |-> {}, removedFailed |-> FALSE,
      setIssued |-> {}, setPending |-> {}, setFailed |-> FALSE,
      state |-> "pending", resumeCalls |-> 0,
      sourceBusy |-> FALSE ]

\* part_000:201-209, the walk over the previously resolved breakpoints: a
\* breakpoint whose requestedLine is still in breakpointsToSet is kept at that
\* index and the slot is overwritten with undefined; any other is deleted.
RECURSIVE forEachOld(_, _, _, _, _)
forEachOld(oldBreakpoints, k, breakpointsToSet, newBreakpoints, breakpointsBeingRemoved) ==
    IF k > Len(oldBreakpoints)
    THEN [ breakpointsToSet |-> breakpointsToSet,
           newBreakpoints |-> newBreakpoints, removed |-> breakpointsBeingRemoved ]
    ELSE IF oldBreakpoints[k] = Hole
    THEN forEachOld(oldBreakpoints, k + 1, breakpointsToSet, newBreakpoints, breakpointsBeingRemoved)
    ELSE LET breakpointIndex ==
                 indexOf(breakpointsToSet, oldBreakpoints[k].requestedLine)
         IN  IF breakpointIndex >= 0
             THEN forEachOld(oldBreakpoints, k + 1,
                      SetAt(breakpointsToSet, breakpointIndex, Undefined, Undefined),
                      SetAt(newBreakpoints, breakpointIndex, oldBreakpoints[k], Hole),
                      breakpointsBeingRemoved)
             ELSE forEachOld(oldBreakpoints, k + 1, breakpointsToSet,
                      newBreakpoints, breakpointsBeingRemoved \cup {oldBreakpoints[k].actor})

\* part_000:211-219, the slots still holding a line get a set-breakpoint request.
SetRequests(breakpointsToSet) ==
    { [ index |-> i - 1, requestedLine |-> breakpointsToSet[i] ] :
        i \in { j \in 1..Len(breakpointsToSet) : breakpointsToSet[j] # Undefined } }

\* The name the debuggee gives the breakpoint actor it creates for the set
\* request of slot index of reconciliation r: opaque to the adapter, and never
\* given twice.
BreakpointActorName(r, index) == (r - 1) * MaxLen + index + 1

\* A slip in part_000:215: the actual location is ignored.
actualLineOf_Requested(requestedLine, actualLocation) ==
    requestedLine

\* part_000:215
actualLineOf(requestedLine, actualLocation) ==
    IF actualLocation = Undefined THEN requestedLine ELSE actualLocation

\* ------------------------------------------ starting a reconciliation
\* The synchronous part of setBreakpointsOnPausedSourceActor (part_000:189-191,
\* 237-238) on st = [recons, workQueue, currentBreakpoints]: the new promise
\* chains on the source's currentBreakpoints and replaces it.
\* A slip in part_000:237: the new result is not stored as currentBreakpoints.
setBreakpointsOnPausedSourceActor_NoChain(st, r) ==
    LET s == st.recons[r].sourceAdapter
    IN  [ st EXCEPT !.recons[r].pc = "waiting",
                    !.recons[r].base = st.currentBreakpoints[s] ]

setBreakpointsOnPausedSourceActor(st, r) ==
    LET s == st.recons[r].sourceAdapter
    IN  [ st EXCEPT !.recons[r].pc = "waiting",
                    !.recons[r].base = st.currentBreakpoints[s],
                    !.currentBreakpoints[s] = r ]

\* ThreadActorProxy.runOnPausedThread: the work unit is queued on its thread.
runOnPausedThread(st, threadActor, r) ==
    [ st EXCEPT !.workQueue[threadActor] = Append(@, r) ]

\* The record of a new call, with what was unfinished when it was made.
AddRecon(st, breakpointsToSet, sourceAdapter, threadActor, request, responds) ==
    [ st EXCEPT !.recons = Append(@,
        [ NewRecon(breakpointsToSet, sourceAdapter, threadActor, request, responds)
            EXCEPT !.sourceBusy = \E q \in 1..Len(st.recons) :
                                     /\ st.recons[q].sourceAdapter = sourceAdapter
                                     /\ st.recons[q].pc # "done" ]) ]

\* A slip in part_000:181: the work is run at once, not through runOnPausedThread.
setBreakpointsOnSourceActor_Direct(st, breakpointsToSet, sourceAdapter, threadActor, request, responds) ==
    setBreakpointsOnPausedSourceActor(
        AddRecon(st, breakpointsToSet, sourceAdapter, threadActor, request, responds),
        Len(st.recons) + 1)

\* part_000:180-183
setBreakpointsOnSourceActor(st, breakpointsToSet, sourceAdapter, threadActor, request, responds) ==
    runOnPausedThread(
        AddRecon(st, breakpointsToSet, sourceAdapter, threadActor, request, responds),
        threadActor, Len(st.recons) + 1)

St == [ recons |-> recons, workQueue |-> workQueue,
        currentBreakpoints |-> currentBreakpoints ]

\* part_000:131-137: the first source adapter of the thread with that url, 0 = null.
FindSource(t, url) ==
    LET hits == { i \in 1..Len(sources[t]) : sourceUrl[sources[t][i]] = url }
    IN  IF hits = {} THEN 0
        ELSE sources[t][CHOOSE i \in hits : \A j \in hits : i <= j]

\* part_000:129-168: threadsById.forEach, in insertion (= id) order.
RECURSIVE forEachThread(_, _, _, _, _, _)
forEachThread(t, st, url, request, lines, responseScheduled) ==
    IF t >= nextThreadId
    THEN [ st |-> st, responseScheduled |-> responseScheduled ]
    ELSE IF t \notin threadsById \/ FindSource(t, url) = 0
    THEN forEachThread(t + 1, st, url, request, lines, responseScheduled)
    ELSE forEachThread(t + 1,
             setBreakpointsOnSourceActor(st, lines, FindSource(t, url), t,
                                         request, ~responseScheduled),
             url, request, lines, TRUE)

\* part_000:125
firefoxSourceUrl(path) == "file://" \o path

Urls == { firefoxSourceUrl(p) : p \in Paths }

\* ------------------------------------------------ front-protocol responses
\* What a request handler did about its response.  outcome is "success",
\* "failure" (response.success = false with response.message set),
\* "thrown" (the handler threw before it called sendResponse; what the caller
\* of the handler makes of the exception is outside this code), or
\* "unanswered" (a promise reaction threw: sendResponse is never called).
Response(command, handle, outcome, message, body) ==
    [ command |-> command, handle |-> handle, outcome |-> outcome,
      message |-> message, body |-> body ]

NoRequest == Response("", 0, "success", "", << >>)

\* The subsystems that are idle while the session handles threads.
NoDisconnect == [ detach |-> << >>, all |-> "none", responses |-> << >> ]
NoLaunch == [ phase |-> "idle", config |-> << >>, addonId |-> FALSE,
              env |-> << >>, result |-> << >>, prepare |-> "none",
              awaiting |-> "none", chained |-> FALSE, mkdir |-> FALSE ]
NoConnect ==
    [ phase |-> "idle", tries |-> 0, attempts |-> 0, socket |-> "none",
      timer |-> 0, promise |-> "pending", value |-> 0, connected |-> 0,
      resolves |-> 0, rejects |-> 0 ]
NoStackframe ==
    [ phase |-> "idle", frameAdapter |-> << >>, sourceAdapter |-> 0,
      result |-> << >> ]

\* new Registry<FrameAdapter>(): the handles it has issued so far are
\* 1 .. next - 1, and map holds the owners that are still registered.
NewRegistry == [ kind |-> "registry", next |-> 1, map |-> << >> ]

\* ---------------------------------------------------------------- Init
\* The session after construction (part_000:14-26).
InitSession ==
    /\ nextThreadId = 1
    /\ threadsById = {}
    /\ breakpointsBySourceUrl = [ u \in Urls |-> 0 ]
    /\ sources = << >>
    /\ argsLines = << >>
    /\ requested = << >>
    /\ sourceUrl = << >>
    /\ currentBreakpoints = << >>
    /\ recons = << >>
    /\ response = << >>
    /\ threadState = << >>
    /\ autoPaused = << >>
    /\ workQueue = << >>
    /\ currentWork = << >>
    /\ ackLog = << >>
    /\ nextFrameId = 1
    /\ framesById = << >>
    /\ nextVariablesProviderId = 1
    /\ variablesProvidersById = << >>
    /\ issued = [ threads |-> << >>, frames |-> << >>, providers |-> << >> ]
    /\ removed = [ threads |-> {}, frames |-> {}, providers |-> {} ]
    /\ lastResponse = NoRequest
    /\ resumeMark = [ providers |-> 0 ]
    /\ disconnect = NoDisconnect
    /\ fetching = << >>

Init ==
    /\ InitSession
    /\ launcher = NoLaunch
    /\ connecting = NoConnect
    /\ stackframe = NoStackframe
    /\ registeredFrames = NewRegistry

\* ------------------------------------------------------ promise reactions
CanStart(t) ==
    /\ threadState[t] = "paused"
    /\ currentWork[t] = 0
    /\ workQueue[t] # << >>

CanDiff(r) ==
    /\ recons[r].pc = "waiting"
    /\ PromiseState(recons[r].base) = "fulfilled"

\* part_000:223-224: Promise.all(removed).then(() => Promise.all(set)) settles
\* on the first failed delete, or once every delete succeeded on the first
\* failed set, or when both groups succeeded.
CanSettle(r) ==
    /\ recons[r].pc = "diffed"
    /\ \/ recons[r].removedFailed
       \/ /\ recons[r].removedPending = {}
          /\ recons[r].setFailed \/ recons[r].setPending = {}

\* part_000:147-163: the promise the response of a request waits for has
\* settled, and the reaction that sends the response has not run yet.
CanRespond(r) ==
    /\ recons[r].responds
    /\ recons[r].state # "pending"
    /\ response[recons[r].request].sent = 0

MicrotaskPending ==
    \/ \E t \in 1..Len(workQueue) : CanStart(t)
    \/ \E r \in 1..Len(recons) : CanDiff(r) \/ CanSettle(r) \/ CanRespond(r)

\* -------------------------------------------------------------- actions
\* part_000:51-96: a tab was attached; its thread gets the next thread id
\* and is resumed (line 93).
TabAttached ==
    /\ nextThreadId <= MaxThreads
    /\ ~MicrotaskPending
    /\ nextThreadId' = nextThreadId + 1
    /\ threadsById' = threadsById \cup {nextThreadId}
    /\ sources' = Append(sources, << >>)
    /\ threadState' = Append(threadState, "running")
    /\ autoPaused' = Append(autoPaused, FALSE)
    /\ workQueue' = Append(workQueue, << >>)
    /\ currentWork' = Append(currentWork, 0)
    /\ issued' = [ issued EXCEPT !.threads = Append(@, nextThreadId) ]
    /\ UNCHANGED << breakpointsBySourceUrl, argsLines, requested, sourceUrl,
                    currentBreakpoints, recons, response, ackLog, regVars, frontVars, farVars,
                    removed >>

\* part_000:61-72: a new-source event on thread t.
onNewSource(t, url) ==
    /\ t \in threadsById
    /\ Len(sourceUrl) < MaxSources
    /\ ~MicrotaskPending
    /\ LET sourceAdapter == Len(sourceUrl) + 1
           st0 == [ St EXCEPT !.currentBreakpoints = Append(@, 0) ]
           st1 == IF breakpointsBySourceUrl[url] # 0
                  THEN setBreakpointsOnSourceActor(st0,
                           breakpointsBySourceUrl[url], sourceAdapter, t, 0, FALSE)
                  ELSE st0
       IN  /\ sourceUrl' = Append(sourceUrl, url)
           /\ sources' = [ sources EXCEPT ![t] = Append(@, sourceAdapter) ]
           /\ recons' = st1.recons
           /\ workQueue' = st1.workQueue
           /\ currentBreakpoints' = st1.currentBreakpoints
    /\ UNCHANGED << nextThreadId, threadsById, breakpointsBySourceUrl, argsLines,
                    requested, response, currentWork, ackLog, thVars, regVars, frontVars, farVars, issued, removed >>

\* A response entry: { verified, line }.
Breakpoint(verified, line) == [ verified |-> verified, line |-> line ]

NoResponse == [ sent |-> 0, success |-> FALSE, body |-> << >> ]

\* part_000:121-178.  For a source no thread has, the answer is built from
\* args.breakpoints (lines 172-175): without that property the handler
\* throws on .map, after it has stored the request, and sends nothing.
setBreakPointsRequest(path, lines, breakpoints) ==
    /\ Len(requested) < MaxRequests
    /\ ~MicrotaskPending
    /\ LET request == Len(requested) + 1
           url == firefoxSourceUrl(path)
           res == forEachThread(1, St, url, request, request, FALSE)
       IN  /\ argsLines' = Append(argsLines, lines)
           /\ requested' = Append(requested, lines)
           /\ breakpointsBySourceUrl' =
                  [ breakpointsBySourceUrl EXCEPT ![url] = request ]
           /\ recons' = res.st.recons
           /\ workQueue' = res.st.workQueue
           /\ currentBreakpoints' = res.st.currentBreakpoints
           /\ response' = Append(response,
                  IF res.responseScheduled \/ ~breakpoints.defined
                  THEN NoResponse
                  ELSE [ sent |-> 1, success |-> TRUE,
                         body |-> [ i \in 1..Len(breakpoints.list) |->
                                      Breakpoint(FALSE,
                                                 breakpoints.list[i].line) ] ])
    /\ UNCHANGED << nextThreadId, threadsById, sources, sourceUrl,
                    currentWork, ackLog, thVars, regVars, frontVars, farVars, issued, removed >>

\* Thread controller: the pause notification that answers the interrupt sent
\* for a queued work unit.
InterruptPaused(t) ==
    /\ t \in 1..Len(threadState)
    /\ threadState[t] = "running"
    /\ currentWork[t] = 0
    /\ workQueue[t] # << >>
    /\ ~MicrotaskPending
    /\ threadState' = [ threadState EXCEPT ![t] = "paused" ]
    /\ autoPaused' = [ autoPaused EXCEPT ![t] = TRUE ]
    /\ UNCHANGED << nextThreadId, threadsById, bpVars, regVars, frontVars, farVars, issued, removed >>

\* Thread controller: the head of the queue starts once the thread is paused
\* and the previous work unit has invoked its resume callback.
StartWork(t) ==
    /\ t \in 1..Len(threadState)
    /\ CanStart(t)
    /\ LET r == Head(workQueue[t])
           st == setBreakpointsOnPausedSourceActor(St, r)
       IN  /\ recons' = st.recons
           /\ currentBreakpoints' = st.currentBreakpoints
           /\ workQueue' = [ st.workQueue EXCEPT ![t] = Tail(@) ]
           /\ currentWork' = [ currentWork EXCEPT ![t] = r ]
    /\ UNCHANGED << nextThreadId, threadsById, breakpointsBySourceUrl, sources,
                    argsLines, requested, sourceUrl, response,
                    ackLog, thVars, regVars, frontVars, farVars, issued, removed >>

\* part_000:193-221: the reaction to the previous currentBreakpoints.
Diff(r) ==
    /\ r \in 1..Len(recons)
    /\ CanDiff(r)
    /\ LET arr == recons[r].breakpointsToSet
           oldBreakpoints == PromiseValue(recons[r].base)
           d == forEachOld(oldBreakpoints, 1, argsLines[arr], << >>, {})
           sets == SetRequests(d.breakpointsToSet)
       IN  /\ argsLines' = [ argsLines EXCEPT ![arr] = d.breakpointsToSet ]
           /\ recons' = [ recons EXCEPT ![r] =
                  [ @ EXCEPT !.pc = "diffed",
                             !.oldBreakpoints = oldBreakpoints,
                             !.newBreakpoints = d.newBreakpoints,
                             !.removedIssued = d.removed,
                             !.removedPending = d.removed,
                             !.setIssued = sets,
                             !.setPending = sets ] ]
    /\ UNCHANGED << nextThreadId, threadsById, breakpointsBySourceUrl, sources,
                    requested, sourceUrl, currentBreakpoints, response,
                    workQueue, currentWork, ackLog,
                    thVars, regVars, frontVars, farVars, issued, removed >>

\* The debuggee answers a delete request (part_000:207).
DeleteReply(r, actor, ok) ==
    /\ r \in 1..Len(recons)
    /\ actor \in recons[r].removedPending
    /\ ~MicrotaskPending
    /\ recons' = [ recons EXCEPT ![r] =
           [ @ EXCEPT !.removedPending = @ \ {actor},
                      !.removedFailed = @ \/ ~ok ] ]
    /\ UNCHANGED << nextThreadId, threadsById, breakpointsBySourceUrl, sources,
                    argsLines, requested, sourceUrl, currentBreakpoints,
                    response, workQueue, currentWork, ackLog, thVars, regVars, frontVars, farVars, issued, removed >>

\* The debuggee's source text: the last line is not breakable, a breakpoint
\* requested there is relocated to the next one; any other line is
\* acknowledged without an actual location.
BreakableLine(line) == IF line = MaxLine THEN line + 1 ELSE Undefined

\* The debuggee answers a set-breakpoint request (part_000:213-217): an error,
\* or a new breakpoint actor with or without an actual location.
SetBreakpointReply(r, op, ok, actualLocation) ==
    /\ r \in 1..Len(recons)
    /\ op \in recons[r].setPending
    /\ ~MicrotaskPending
    /\ IF ok
       THEN /\ recons' = [ recons EXCEPT ![r] =
                  [ @ EXCEPT !.setPending = @ \ {op},
                             !.newBreakpoints = SetAt(@, op.index,
                                  BreakpointAdapter(op.requestedLine,
                                      actualLineOf(op.requestedLine, actualLocation),
                                      BreakpointActorName(r, op.index)),
                                  Hole) ] ]
            /\ ackLog' = (BreakpointActorName(r, op.index) :>
                              [ requestedLine |-> op.requestedLine,
                                actualLocation |-> actualLocation ]) @@ ackLog
       ELSE /\ recons' = [ recons EXCEPT ![r] =
                  [ @ EXCEPT !.setPending = @ \ {op}, !.setFailed = TRUE ] ]
            /\ UNCHANGED ackLog
    /\ UNCHANGED << nextThreadId, threadsById, breakpointsBySourceUrl, sources,
                    argsLines, requested, sourceUrl, currentBreakpoints,
                    response, workQueue, currentWork, thVars, regVars, frontVars, farVars, issued, removed >>

\* part_000:150-151: the response body of a fulfilled reconciliation; map
\* keeps the holes of a sparse array.
ResponseBody(breakpointAdapters) ==
    [ i \in 1..Len(breakpointAdapters) |->
        IF breakpointAdapters[i] = Hole THEN Breakpoint(FALSE, Undefined)
        ELSE Breakpoint(TRUE, breakpointAdapters[i].actualLine) ]

\* part_000:225-233: the result settles and resume is invoked.
Settle(r) ==
    /\ r \in 1..Len(recons)
    /\ CanSettle(r)
    /\ LET ok == ~recons[r].removedFailed /\ ~recons[r].setFailed
           t == recons[r].thread
       IN  /\ recons' = [ recons EXCEPT ![r] =
                  [ @ EXCEPT !.pc = "done",
                             !.state = IF ok THEN "fulfilled" ELSE "rejected",
                             !.resumeCalls = @ + 1 ] ]
           /\ currentWork' = [ currentWork EXCEPT ![t] = IF @ = r THEN 0 ELSE @ ]
           /\ threadState' = [ threadState EXCEPT ![t] =
                  IF autoPaused[t] THEN "running" ELSE @ ]
           /\ autoPaused' = [ autoPaused EXCEPT ![t] = FALSE ]
    /\ UNCHANGED << nextThreadId, threadsById, breakpointsBySourceUrl, sources,
                    argsLines, requested, sourceUrl, currentBreakpoints,
                    response, workQueue, ackLog, regVars, frontVars, farVars,
                    issued, removed >>

\* part_000:147-163, the reaction to setBreakpointsPromise of the first
\* thread that has the source, in a later promise reaction than the one that
\* settled it: the response goes out, with the breakpoints of the resolved
\* list or as a failure.
Respond(r) ==
    /\ r \in 1..Len(recons)
    /\ CanRespond(r)
    /\ LET ok == recons[r].state = "fulfilled"
       IN  response' =
               [ response EXCEPT ![recons[r].request] =
                   [ sent |-> @.sent + 1, success |-> ok,
                     body |-> IF ok
                              THEN ResponseBody(recons[r].newBreakpoints)
                              ELSE << >> ] ]
    /\ UNCHANGED << nextThreadId, threadsById, breakpointsBySourceUrl, sources,
                    argsLines, requested, sourceUrl, currentBreakpoints,
                    recons, workQueue, currentWork, ackLog, thVars, regVars,
                    frontVars, farVars, issued, removed >>

\* ---------------------------------------------- threads, frames, handles
\* part_000:75-80: the thread pauses on its own (breakpoint hit, exception).
onPaused(t) ==
    /\ t \in threadsById
    /\ ~MicrotaskPending
    /\ threadState[t] = "running"
    /\ threadState' = [ threadState EXCEPT ![t] = "paused" ]
    /\ UNCHANGED << nextThreadId, threadsById, bpVars, autoPaused, regVars, frontVars, farVars,
                    issued, removed >>

\* part_000:83-90
onExited(t) ==
    /\ t \in threadsById
    /\ ~MicrotaskPending
    /\ threadsById' = threadsById \ {t}
    /\ removed' = [ removed EXCEPT !.threads = @ \cup {t} ]
    /\ UNCHANGED << nextThreadId, bpVars, thVars, regVars, frontVars, farVars, issued >>

\* Map.delete / Map.clear on a handle map.
Without(map, handles) == [ h \in DOMAIN map \ handles |-> map[h] ]

\* How many handles each pause-cycle registry has issued so far.
IssuedSoFar ==
    [ providers |-> Len(issued.providers) ]

\* part_000:275-278: the frame map is cleared; the id counter and the
\* variables providers are left alone (the clear() of line 276 is commented
\* out).
terminatePause ==
    /\ framesById' = << >>
    /\ removed' = [ removed EXCEPT !.frames = @ \cup DOMAIN framesById ]
    /\ resumeMark' = IssuedSoFar
    /\ UNCHANGED nextFrameId

\* The thread actor is told to run on (resume, stepOver, stepInto, stepOut).
ActorResumed(t) ==
    /\ threadState' = [ threadState EXCEPT ![t] = "running" ]
    /\ autoPaused' = [ autoPaused EXCEPT ![t] = FALSE ]

\* this.threadsById.get(threadId).actor.<method>() followed by
\* sendResponse(response): Map.get gives undefined for an unknown thread id and
\* reading .actor of it throws a TypeError, so the response is never sent by
\* the handler.
onThreadActor(command, threadId, method) ==
    IF threadId \in threadsById
    THEN /\ method
         /\ lastResponse' = Response(command, threadId, "success", "", << >>)
    ELSE /\ UNCHANGED thVars
         /\ lastResponse' = Response(command, threadId, "thrown", "TypeError", << >>)

\* part_000:241-245; the pause itself arrives later as onPaused.
pauseRequest(threadId) ==
    /\ onThreadActor("pause", threadId, UNCHANGED thVars)
    /\ ~MicrotaskPending
    /\ UNCHANGED << nextThreadId, threadsById, bpVars, regVars, issued, removed,
                    resumeMark, farVars >>

\* part_000:247-252
continueRequest(threadId) ==
    /\ terminatePause
    /\ onThreadActor("continue", threadId, ActorResumed(threadId))
    /\ ~MicrotaskPending
    /\ UNCHANGED << nextThreadId, threadsById, bpVars, nextVariablesProviderId,
                    variablesProvidersById, issued, farVars >>

\* part_000:254-259
nextRequest(threadId) ==
    /\ terminatePause
    /\ onThreadActor("next", threadId, ActorResumed(threadId))
    /\ ~MicrotaskPending
    /\ UNCHANGED << nextThreadId, threadsById, bpVars, nextVariablesProviderId,
                    variablesProvidersById, issued, farVars >>

\* part_000:261-266
stepInRequest(threadId) ==
    /\ terminatePause
    /\ onThreadActor("stepIn", threadId, ActorResumed(threadId))
    /\ ~MicrotaskPending
    /\ UNCHANGED << nextThreadId, threadsById, bpVars, nextVariablesProviderId,
                    variablesProvidersById, issued, farVars >>

\* part_000:268-273
stepOutRequest(threadId) ==
    /\ terminatePause
    /\ onThreadActor("stepOut", threadId, ActorResumed(threadId))
    /\ ~MicrotaskPending
    /\ UNCHANGED << nextThreadId, threadsById, bpVars, nextVariablesProviderId,
                    variablesProvidersById, issued, farVars >>

\* ------------------------------------------------------------ stack frames
\* A frame description of the back protocol (FirefoxDebugProtocol.Frame):
\* type, displayName (named = FALSE: the property is missing), where.actor,
\* where.line, where.column (Absent: the property is missing).
Absent == 0 - 1

Frame(type, named, displayName, actor, line, column, this) ==
    [ type |-> type, named |-> named, displayName |-> displayName,
      actor |-> actor, line |-> line, column |-> column, this |-> this ]

\* A JavaScript number, where the callee may expect an object.
JsNumber(n) == [ kind |-> "number", value |-> n ]

\* Registry.register(owner): the owner is stored under the next handle.
register(registry, owner) ==
    [ registry EXCEPT !.next = @ + 1, !.map = (registry.next :> owner) @@ @ ]

\* Registry.unregister(id)
unregister(registry, id) ==
    [ registry EXCEPT !.map = [ h \in DOMAIN @ \ {id} |-> @[h] ] ]

\* EnvironmentAdapter.from(frame.environment).getScopeAdapters(frameAdapter):
\* the scopes of the frame, innermost first; there is at least one.
getScopeAdapters(frame) == << [ scope |-> 1, this |-> Absent ] >>

\* ScopeAdapter.addThis on the innermost scope (frame.ts:26-28).
addThis(scopeAdapters, this) ==
    IF this = Absent THEN scopeAdapters
    ELSE [ scopeAdapters EXCEPT ![1] = [ @ EXCEPT !.this = this ] ]

\* new FrameAdapter(frameRegistry, frame, threadAdapter), frame.ts:18-29: the
\* adapter registers itself and takes the handle the registry gives it.
\* With anything but a registry as first argument, frameRegistry.register is
\* not a function and line 23 throws a TypeError.  The result says whether
\* the constructor threw, what became of the registry and what was built.
FrameAdapter(frameRegistry, frame, threadAdapter) ==
    IF frameRegistry.kind # "registry"
    THEN [ thrown |-> TRUE, registry |-> frameRegistry,
           frameAdapter |-> << >> ]
    ELSE LET this == [ id |-> frameRegistry.next, frame |-> frame,
                       threadAdapter |-> threadAdapter,
                       scopeAdapters |->
                           addThis(getScopeAdapters(frame), frame.this) ]
         IN  [ thrown |-> FALSE, registry |-> register(frameRegistry, this),
               frameAdapter |-> this ]

\* new StackFrame(id, name, source, line, column) of frame.ts:66-67.
StackFrame(id, name, source, line, column) ==
    [ id |-> id, name |-> name, source |-> source, line |-> line,
      column |-> column ]

\* A slip in frame.ts:51-53: the case 'clientEvaluate' is missing.
FrameName_NoClientEvaluate(frame) ==
    CASE frame.type = "call" ->
             IF frame.named /\ frame.displayName # ""
             THEN frame.displayName ELSE "[anonymous function]"
      [] frame.type = "global" -> "[Global]"
      [] frame.type = "eval" -> "[eval]"
      [] frame.type = "wasmcall" -> "[wasm]"
      [] OTHER -> "[" \o frame.type \o "]"

\* frame.ts:39-64: the switch on frame.type.  x || y of JavaScript takes y
\* when x is undefined or the empty string.
FrameName(frame) ==
    CASE frame.type = "call" ->
             IF frame.named /\ frame.displayName # ""
             THEN frame.displayName ELSE "[anonymous function]"
      [] frame.type = "global" -> "[Global]"
      [] frame.type \in {"eval", "clientEvaluate"} -> "[eval]"
      [] frame.type = "wasmcall" -> "[wasm]"
      [] OTHER -> "[" \o frame.type \o "]"

\* frame.ts:60-63: only the default branch logs.
FrameNameLog(frame) ==
    IF frame.type \in {"call", "global", "eval", "clientEvaluate", "wasmcall"}
    THEN << >>
    ELSE << "Unexpected frame type " \o frame.type >>

\* frame.ts:67: (column || 0) + 1
ColumnOf(column) == (IF column = Absent THEN 0 ELSE column) + 1

\* ThreadAdapter.findSourceAdapterForActorName: the source adapter of the
\* thread whose actor has that name, or undefined.  A source actor is named
\* by the number of its source adapter.
findSourceAdapterForActorName(sourceAdapters, actorName) ==
    IF actorName \in Range(sourceAdapters) THEN actorName ELSE Undefined

\* frame.ts:31-68, with the source adapter the lookup of line 34 gave.
\* The result says whether the call threw, what it returned and what it
\* logged.
getStackframe(frameAdapter, sourceAdapter) ==
    IF sourceAdapter = Undefined
    THEN [ thrown |-> TRUE, logged |-> << >>,
           value |-> StackFrame(0, "", Undefined, 0, 0) ]
    ELSE [ thrown |-> FALSE, logged |-> FrameNameLog(frameAdapter.frame),
           value |-> StackFrame(frameAdapter.id, FrameName(frameAdapter.frame),
                                sourceAdapter, frameAdapter.frame.line,
                                ColumnOf(frameAdapter.frame.column)) ]

\* part_000:289-294, the first frames.map: every fetched frame takes the
\* next frame id, which line 291 hands to the FrameAdapter constructor as
\* its first argument, and the adapter is stored under that id.  An
\* exception of the constructor ends the map.
\* reg = [next, map, made, thrown].
RECURSIVE registerFrames(_, _, _)
registerFrames(reg, frames, threadAdapter) ==
    IF frames = << >> THEN reg
    ELSE LET frameId == reg.next
             made == FrameAdapter(JsNumber(frameId), Head(frames), threadAdapter)
         IN  IF made.thrown
             THEN [ reg EXCEPT !.next = frameId + 1, !.thrown = TRUE ]
             ELSE registerFrames(
                      [ next |-> frameId + 1,
                        map |-> (frameId :> made.frameAdapter) @@ reg.map,
                        made |-> Append(reg.made, made.frameAdapter),
                        thrown |-> FALSE ],
                      Tail(frames), threadAdapter)

\* part_000:286-303, the two handlers passed to then(): fetch is what
\* fetchStackFrames settled with.  An exception of the FrameAdapter
\* constructor or of getStackframe is thrown inside the fulfilment handler:
\* the rejection handler of the same then() does not see it, and no response
\* is sent.
onStackFrames(threadAdapter, fetch) ==
    IF ~fetch.ok
    THEN /\ lastResponse' = Response("stackTrace", threadAdapter, "failure",
                                     "fetch failed", << >>)
         /\ UNCHANGED << nextFrameId, framesById >>
    ELSE LET reg == registerFrames(
                 [ next |-> nextFrameId, map |-> framesById,
                   made |-> << >>, thrown |-> FALSE ],
                 fetch.frames, threadAdapter)
             stackFrames ==
                 [ i \in 1..Len(reg.made) |->
                     getStackframe(reg.made[i],
                         findSourceAdapterForActorName(sources[threadAdapter],
                             reg.made[i].frame.actor)) ]
         IN  /\ nextFrameId' = reg.next
             /\ framesById' = reg.map
             /\ lastResponse' =
                    IF reg.thrown
                    THEN Response("stackTrace", threadAdapter, "unanswered",
                                  "TypeError", << >>)
                    ELSE IF \E i \in 1..Len(stackFrames) : stackFrames[i].thrown
                    THEN Response("stackTrace", threadAdapter, "unanswered",
                                  "Couldn't find source adapter", << >>)
                    ELSE Response("stackTrace", threadAdapter, "success", "",
                                  [ i \in 1..Len(stackFrames) |->
                                      stackFrames[i].value ])

\* A request to the debuggee whose promise is pending: the command of the
\* front-protocol request that waits for it, the handle the request named,
\* and whether its thread was paused when the request was sent.
Pending(command, handle, paused) ==
    [ command |-> command, handle |-> handle, paused |-> paused ]

\* The pending requests without the i-th.
Settled(i) ==
    SubSeq(fetching, 1, i - 1) \o SubSeq(fetching, i + 1, Len(fetching))

\* The reply to fetching[i] is the next one the connection delivers for its
\* command and handle: the replies of an actor come in the order of the
\* requests.
IsOldest(i) ==
    /\ i \in 1..Len(fetching)
    /\ \A j \in 1..(i - 1) :
           \/ fetching[j].command # fetching[i].command
           \/ fetching[j].handle # fetching[i].handle

\* part_000:280-286, the handler of a stackTrace request: the thread is
\* looked up (line 284 throws for an unknown thread), fetchStackFrames sends
\* the frames request to the thread actor and the handler returns.
stackTraceRequest(threadId) ==
    /\ Len(fetching) < MaxFetching
    /\ IF threadId \notin threadsById
       THEN /\ lastResponse' = Response("stackTrace", threadId, "thrown",
                                        "TypeError", << >>)
            /\ UNCHANGED fetching
       ELSE /\ fetching' = Append(fetching,
                               Pending("stackTrace", threadId,
                                       threadState[threadId] = "paused"))
            /\ UNCHANGED lastResponse
    /\ ~MicrotaskPending
    /\ UNCHANGED << nextThreadId, threadsById, bpVars, thVars, regVars, issued,
                    removed, resumeMark, disconnect, launcher, connecting,
                    stackframe, registeredFrames >>

\* The reply to the frames request arrives and the handlers of
\* part_000:286-303 run, with the thread adapter the request handler looked
\* up; nothing cancels the promise in between.  A thread actor reports
\* frames only for a request it got while paused.
stackTraceReply(i, fetch) ==
    /\ IsOldest(i)
    /\ fetching[i].command = "stackTrace"
    /\ fetch.ok => fetching[i].paused
    /\ nextFrameId + Len(fetch.frames) - 1 <= MaxFrames
    /\ onStackFrames(fetching[i].handle, fetch)
    /\ fetching' = Settled(i)
    /\ ~MicrotaskPending
    /\ UNCHANGED << nextThreadId, threadsById, bpVars, thVars,
                    nextVariablesProviderId, variablesProvidersById, issued,
                    removed, resumeMark, disconnect, launcher, connecting,
                    stackframe, registeredFrames >>

\* new FrameAdapter(frameRegistry, frame, threadAdapter) with the frame
\* registry, as frame.ts:18-29 expects to be called.
NewFrameAdapter(frame, threadAdapter) ==
    /\ threadAdapter \in threadsById
    /\ registeredFrames.next <= MaxFrames
    /\ ~MicrotaskPending
    /\ LET made == FrameAdapter(registeredFrames, frame, threadAdapter)
       IN  /\ registeredFrames' = made.registry
           /\ issued' = [ issued EXCEPT !.frames = Append(@, made.frameAdapter) ]
    /\ UNCHANGED << nextThreadId, threadsById, bpVars, thVars, regVars, removed,
                    frontVars, disconnect, launcher, connecting, stackframe,
                    fetching >>

\* The call of getStackframe on the frame adapter the run started with.
Convert ==
    /\ stackframe.phase = "ready"
    /\ stackframe' = [ stackframe EXCEPT
                          !.phase = "converted",
                          !.result = getStackframe(stackframe.frameAdapter,
                                                   stackframe.sourceAdapter) ]
    /\ UNCHANGED << nextThreadId, threadsById, bpVars, thVars, regVars, issued,
                    removed, frontVars, disconnect, launcher, connecting, fetching,
                    registeredFrames >>

\* frame.ts:70-72, FrameAdapter.dispose, of the adapter registered under
\* frameId: the frame registry forgets the handle.
dispose(frameId) ==
    /\ frameId \in DOMAIN registeredFrames.map
    /\ ~MicrotaskPending
    /\ registeredFrames' =
           unregister(registeredFrames, registeredFrames.map[frameId].id)
    /\ removed' = [ removed EXCEPT
                      !.frames = @ \cup {registeredFrames.map[frameId].id} ]
    /\ UNCHANGED << nextThreadId, threadsById, bpVars, thVars, regVars, issued,
                    frontVars, disconnect, launcher, connecting, stackframe,
                    fetching >>

\* A slip in part_000:29: the provider id is read but not advanced.
registerVariablesProvider_SameId ==
    /\ nextVariablesProviderId <= MaxProviders
    /\ Len(issued.providers) < MaxProviders
    /\ ~MicrotaskPending
    /\ LET providerId == nextVariablesProviderId
           variablesProvider == [ variablesProviderId |-> providerId,
                                  provider |-> Len(issued.providers) + 1 ]
       IN  /\ nextVariablesProviderId' = nextVariablesProviderId
           /\ variablesProvidersById' =
                  (providerId :> variablesProvider) @@ variablesProvidersById
           /\ issued' = [ issued EXCEPT !.providers = Append(@, variablesProvider) ]
    /\ UNCHANGED << nextThreadId, threadsById, bpVars, thVars, nextFrameId,
                    framesById, removed, frontVars, farVars >>

\* part_000:28-32; the provider is identified by the order of registration.
\* Scope adapters and object grips call it while a scopes, variables or
\* evaluate request is served.
registerVariablesProvider ==
    /\ nextVariablesProviderId <= MaxProviders
    /\ ~MicrotaskPending
    /\ LET providerId == nextVariablesProviderId
           variablesProvider == [ variablesProviderId |-> providerId,
                                  provider |-> Len(issued.providers) + 1 ]
       IN  /\ nextVariablesProviderId' = nextVariablesProviderId + 1
           /\ variablesProvidersById' =
                  (providerId :> variablesProvider) @@ variablesProvidersById
           /\ issued' = [ issued EXCEPT !.providers = Append(@, variablesProvider) ]
    /\ UNCHANGED << nextThreadId, threadsById, bpVars, thVars, nextFrameId,
                    framesById, removed, frontVars, farVars >>

\* part_000:307-327
scopesRequest(frameId) ==
    /\ lastResponse' =
           IF frameId \notin DOMAIN framesById
           THEN Response("scopes", frameId, "failure",
                    "scopesRequest failed because the requested frame can't be found",
                    << >>)
           ELSE Response("scopes", frameId, "success", "",
                         << framesById[frameId] >>)
    /\ ~MicrotaskPending
    /\ UNCHANGED << nextThreadId, threadsById, bpVars, thVars, regVars, issued,
                    removed, resumeMark, farVars >>

\* part_000:329-354, the handler of a variables request: for an unknown
\* handle a failure is sent; otherwise getVariables of the provider asks the
\* debuggee and the handler returns.
variablesRequest(variablesReference) ==
    /\ Len(fetching) < MaxFetching
    /\ IF variablesReference \notin DOMAIN variablesProvidersById
       THEN /\ lastResponse' =
                   Response("variables", variablesReference, "failure",
                       "variablesRequest failed because the requested object reference can't be found",
                       << >>)
            /\ UNCHANGED fetching
       ELSE /\ fetching' = Append(fetching,
                               Pending("variables", variablesReference, FALSE))
            /\ UNCHANGED lastResponse
    /\ ~MicrotaskPending
    /\ UNCHANGED << nextThreadId, threadsById, bpVars, thVars, regVars, issued,
                    removed, resumeMark, disconnect, launcher, connecting,
                    stackframe, registeredFrames >>

\* part_000:345-353: getVariables settles, fulfilled (fetched) or rejected,
\* and the response is sent with the variables of the provider the handler
\* had looked up.
variablesReply(i, fetched) ==
    /\ IsOldest(i)
    /\ fetching[i].command = "variables"
    /\ lastResponse' =
           IF fetched
           THEN Response("variables", fetching[i].handle, "success", "",
                         << issued.providers[fetching[i].handle] >>)
           ELSE Response("variables", fetching[i].handle, "failure",
                         "fetch failed", << >>)
    /\ fetching' = Settled(i)
    /\ ~MicrotaskPending
    /\ UNCHANGED << nextThreadId, threadsById, bpVars, thVars, regVars, issued,
                    removed, resumeMark, disconnect, launcher, connecting,
                    stackframe, registeredFrames >>

\* part_000:356-365, the handler of an evaluate request.  frameId =
\* Undefined: the request names no frame, and a failure is sent.  For a frame
\* id that is not in the map, line 364 reads .threadAdapter of undefined and
\* throws.  Otherwise the expression is sent to the thread of the frame and
\* the handler returns.
evaluateRequest(frameId) ==
    /\ Len(fetching) < MaxFetching
    /\ IF frameId = Undefined
       THEN /\ lastResponse' =
                   Response("evaluate", frameId, "failure",
                            "Can't find requested evaluation frame", << >>)
            /\ UNCHANGED fetching
       ELSE IF frameId \notin DOMAIN framesById
       THEN /\ lastResponse' = Response("evaluate", frameId, "thrown",
                                        "TypeError", << >>)
            /\ UNCHANGED fetching
       ELSE /\ fetching' = Append(fetching, Pending("evaluate", frameId, TRUE))
            /\ UNCHANGED lastResponse
    /\ ~MicrotaskPending
    /\ UNCHANGED << nextThreadId, threadsById, bpVars, thVars, regVars, issued,
                    removed, resumeMark, disconnect, launcher, connecting,
                    stackframe, registeredFrames >>

\* part_000:366-376: the evaluation settles, fulfilled (evaluated) or
\* rejected, and the response is sent.
evaluateReply(i, evaluated) ==
    /\ IsOldest(i)
    /\ fetching[i].command = "evaluate"
    /\ lastResponse' =
           IF evaluated
           THEN Response("evaluate", fetching[i].handle, "success", "", << >>)
           ELSE Response("evaluate", fetching[i].handle, "failure",
                         "evaluate failed", << >>)
    /\ fetching' = Settled(i)
    /\ ~MicrotaskPending
    /\ UNCHANGED << nextThreadId, threadsById, bpVars, thVars, regVars, issued,
                    removed, resumeMark, disconnect, launcher, connecting,
                    stackframe, registeredFrames >>

\* -------------------------------------------------------------- disconnect
\* disconnect.detach: the detach promises pushed in part_000:392-394, by
\* thread ("pending", "fulfilled", "rejected"); disconnect.all: the state of
\* Promise.all(detachPromises); disconnect.responses: the responses sent, each
\* with the detach requests that were still pending when it was sent.
DetachPending(detach) == { t \in DOMAIN detach : detach[t] = "pending" }

\* Promise.all: rejected with the first rejection, fulfilled when every
\* promise is fulfilled (at once for an empty list), pending otherwise.
PromiseAll(promises) ==
    IF \E t \in DOMAIN promises : promises[t] = "rejected" THEN "rejected"
    ELSE IF \A t \in DOMAIN promises : promises[t] = "fulfilled" THEN "fulfilled"
    ELSE "pending"

\* part_000:396-404: both reactions send the response as it is, a success.
\* A promise settles once: a later rejection or fulfilment changes nothing.
DetachSettled(d, detach) ==
    LET all == IF d.all = "pending" THEN PromiseAll(detach) ELSE d.all
    IN  [ detach |-> detach, all |-> all,
          responses |->
              IF d.all = "pending" /\ all # "pending"
              THEN Append(d.responses,
                          [ success |-> TRUE, pending |-> DetachPending(detach) ])
              ELSE d.responses ]

\* part_000:387-406, up to the first await: one detach request per thread
\* of the thread map.
disconnectRequest ==
    /\ disconnect.all = "none"
    /\ ~MicrotaskPending
    /\ disconnect' =
           DetachSettled([ disconnect EXCEPT !.all = "pending" ],
                         [ t \in threadsById |-> "pending" ])
    /\ UNCHANGED << nextThreadId, threadsById, bpVars, thVars, regVars, issued,
                    removed, frontVars, launcher, connecting, stackframe, fetching,
                    registeredFrames >>

\* The reply to the detach request of thread t arrives, with or without an
\* error, and the reactions of part_000:396-404 run.
DetachReply(t, ok) ==
    /\ t \in DetachPending(disconnect.detach)
    /\ ~MicrotaskPending
    /\ disconnect' =
           DetachSettled(disconnect,
               [ disconnect.detach EXCEPT
                   ![t] = IF ok THEN "fulfilled" ELSE "rejected" ])
    /\ UNCHANGED << nextThreadId, threadsById, bpVars, thVars, regVars, issued,
                    removed, frontVars, launcher, connecting, stackframe, fetching,
                    registeredFrames >>

\* ------------------------------------------------------------ launchFirefox
\* A launch configuration: whether firefoxExecutable, profile, url and
\* addonType are set, and what file is ("none", "relative", "absolute").
LaunchConfigurations ==
    [ firefoxExecutable : BOOLEAN, profile : BOOLEAN,
      file : {"none", "relative", "absolute"}, url : BOOLEAN,
      addonType : BOOLEAN ]

\* What the file system, the profile finder and installAddon answer:
\* executable: fs.accessSync(config.firefoxExecutable, X_OK) succeeds;
\* candidates: the same for each default path of the platform;
\* getPath: finder.getPath gives a directory; installAddon: how its promise
\* settles; profileDir: the directory exists, and the access check or the
\* creation succeeds; extensionsDir: "present", or "missing" and created
\* by line 69.
LaunchEnvironments ==
    [ executable : BOOLEAN, candidates : [ 1..2 -> BOOLEAN ],
      getPath : BOOLEAN, installAddon : {"fulfilled", "rejected"},
      profileDir : [ exists : BOOLEAN, ok : BOOLEAN ],
      extensionsDir : {"present", "missing"} ]

\* launcher.ts:162-168: the first candidate that is executable, 0 for null.
RECURSIVE FirstExecutable(_, _)
FirstExecutable(candidates, i) ==
    IF i > Len(candidates) THEN 0
    ELSE IF candidates[i] THEN i
    ELSE FirstExecutable(candidates, i + 1)

\* launcher.ts:123-169: a path (here a positive number), or 0 for null.
getFirefoxExecutablePath(config, env) ==
    IF config.firefoxExecutable
    THEN IF env.executable THEN 1 ELSE 0
    ELSE LET i == FirstExecutable(env.candidates, 1)
         IN  IF i = 0 THEN 0 ELSE 1 + i

\* launcher.ts:174-206: << success, profileDir or error message >>.
\* stat.isDirectory is a method that line 185 does not call, so the test is
\* true for whatever exists at the path.
getProfileDir(config, env) ==
    IF env.profileDir.exists
    THEN IF env.profileDir.ok
         THEN << TRUE, "profileDir" >>
         ELSE << FALSE, "The profile directory exists but can't be accessed" >>
    ELSE IF env.profileDir.ok
         THEN << TRUE, "profileDir" >>
         ELSE << FALSE, "Error trying to create profile directory" >>

\* The promise launchFirefox returns.  settled: "pending", "resolved" or
\* "rejected"; value: what it settled with; spawned: spawn was called.
LaunchResult(settled, value, spawned) ==
    [ settled |-> settled, value |-> value, spawned |-> spawned ]

\* launcher.ts:32-81, prepareProfilePromise as it is when the synchronous
\* part is through: its state ("none": line 79 returns before there is one),
\* the answer it waits for, the error message of line 79, and whether line
\* 69 created the extensions directory.  With a named profile and an add-on
\* the executor has called finder.getPath (line 40); with a profile directory
\* and an add-on installAddon has been called (line 71).
prepareProfilePromise(config, addonId, env) ==
    IF config.profile
    THEN IF addonId
         THEN [ state |-> "pending", awaiting |-> "getPath", error |-> "",
                mkdir |-> FALSE ]
         ELSE [ state |-> "fulfilled", awaiting |-> "none", error |-> "",
                mkdir |-> FALSE ]
    ELSE LET dir == getProfileDir(config, env)
         IN  IF dir[1]
             THEN IF addonId
                  THEN [ state |-> "pending", awaiting |-> "installAddon",
                         error |-> "",
                         mkdir |-> env.extensionsDir = "missing" ]
                  ELSE [ state |-> "fulfilled", awaiting |-> "none",
                         error |-> "", mkdir |-> FALSE ]
             ELSE [ state |-> "none", awaiting |-> "none", error |-> dir[2],
                    mkdir |-> FALSE ]

\* launcher.ts:87-107: the error message about file / url, "" for none.
TargetError(config) ==
    IF config.file # "none"
    THEN IF config.file = "relative"
         THEN "The \"file\" property in the launch configuration has to be an absolute path"
         ELSE ""
    ELSE IF config.url \/ config.addonType THEN ""
    ELSE "You need to set either \"file\" or \"url\" in the launch configuration"

\* What a call of launchFirefox leaves behind when it returns.
Returned(result, prepare, chained) ==
    [ result |-> result, prepare |-> prepare.state,
      awaiting |-> prepare.awaiting, chained |-> chained,
      mkdir |-> prepare.mkdir ]

\* launcher.ts:15-114, the synchronous part: the promise it returns, and
\* prepareProfilePromise with the reaction of line 109 chained to it or not.
\* An early return gives a promise that is resolved with the error message;
\* otherwise the promise is pending when the call returns, also when
\* prepareProfilePromise is fulfilled already.  The returns of lines 90 and
\* 106 come after getPath or installAddon was called.
launchFirefox(config, addonId, env) ==
    LET firefoxPath == getFirefoxExecutablePath(config, env)
        prepare == prepareProfilePromise(config, addonId, env)
        NotPrepared == [ state |-> "none", awaiting |-> "none", error |-> "",
                         mkdir |-> FALSE ]
    IN  IF firefoxPath = 0
        THEN Returned(LaunchResult("resolved",
                 IF config.firefoxExecutable
                 THEN "Couldn't find the Firefox executable. Please correct the path given in your launch configuration."
                 ELSE "Couldn't find the Firefox executable. Please specify the path in your launch configuration.",
                 FALSE), NotPrepared, FALSE)
        ELSE IF prepare.state = "none"
        THEN Returned(LaunchResult("resolved", prepare.error, FALSE),
                      prepare, FALSE)
        ELSE IF TargetError(config) # ""
        THEN Returned(LaunchResult("resolved", TargetError(config), FALSE),
                      prepare, FALSE)
        ELSE Returned(LaunchResult("pending", "", FALSE), prepare, TRUE)

\* launcher.ts:109-113, what the promise of prepareProfilePromise.then
\* becomes when prepareProfilePromise has settled: fulfilled, the reaction
\* spawns Firefox and the promise resolves with the child process; rejected,
\* there is no rejection handler and the promise is rejected too.
onProfilePrepared(prepare) ==
    IF prepare = "fulfilled"
    THEN LaunchResult("resolved", "childProc", TRUE)
    ELSE LaunchResult("rejected", "Error", FALSE)

\* The reaction of line 109 is due: a promise reaction, which runs before
\* the event loop delivers the next answer.
LaunchReactionDue ==
    /\ launcher.phase = "launched"
    /\ launcher.chained
    /\ launcher.result.settled = "pending"
    /\ launcher.prepare \in {"fulfilled", "rejected"}

\* The call of launchFirefox with the configuration and the surroundings
\* the run started with, up to its return.
Launch ==
    /\ launcher.phase = "ready"
    /\ LET returned == launchFirefox(launcher.config, launcher.addonId,
                                     launcher.env)
       IN  launcher' = [ launcher EXCEPT
                           !.phase = "launched",
                           !.result = returned.result,
                           !.prepare = returned.prepare,
                           !.awaiting = returned.awaiting,
                           !.chained = returned.chained,
                           !.mkdir = returned.mkdir ]
    /\ UNCHANGED << nextThreadId, threadsById, bpVars, thVars, regVars, issued,
                    removed, frontVars, disconnect, connecting, stackframe, fetching,
                    registeredFrames >>

\* launcher.ts:40-48, the callback of finder.getPath, in a later turn of the
\* event loop: with an error prepareProfilePromise is rejected, otherwise
\* installAddon is called.
onGetPath ==
    /\ launcher.phase = "launched"
    /\ launcher.awaiting = "getPath"
    /\ ~LaunchReactionDue
    /\ launcher' = IF launcher.env.getPath
                   THEN [ launcher EXCEPT !.awaiting = "installAddon" ]
                   ELSE [ launcher EXCEPT !.awaiting = "none",
                                          !.prepare = "rejected" ]
    /\ UNCHANGED << nextThreadId, threadsById, bpVars, thVars, regVars, issued,
                    removed, frontVars, disconnect, connecting, stackframe, fetching,
                    registeredFrames >>

\* The promise of installAddon settles, in a later turn of the event loop.
\* With a named profile (launcher.ts:45-46) its fulfilment resolves
\* prepareProfilePromise and its rejection has no handler, which leaves
\* prepareProfilePromise pending; with a profile directory (launcher.ts:71-72)
\* prepareProfilePromise settles as installAddon does.
onInstallAddon ==
    /\ launcher.phase = "launched"
    /\ launcher.awaiting = "installAddon"
    /\ ~LaunchReactionDue
    /\ launcher' =
           [ launcher EXCEPT
               !.awaiting = "none",
               !.prepare = IF launcher.config.profile
                           THEN IF launcher.env.installAddon = "fulfilled"
                                THEN "fulfilled" ELSE "pending"
                           ELSE launcher.env.installAddon ]
    /\ UNCHANGED << nextThreadId, threadsById, bpVars, thVars, regVars, issued,
                    removed, frontVars, disconnect, connecting, stackframe, fetching,
                    registeredFrames >>

\* The reaction of launcher.ts:109-113 runs.
ProfilePrepared ==
    /\ LaunchReactionDue
    /\ launcher' = [ launcher EXCEPT
                        !.result = onProfilePrepared(launcher.prepare) ]
    /\ UNCHANGED << nextThreadId, threadsById, bpVars, thVars, regVars, issued,
                    removed, frontVars, disconnect, connecting, stackframe, fetching,
                    registeredFrames >>

\* ------------------------------------------------------------ waitForSocket
\* launcher.ts:119: tryConnect(port, 200, 25, resolve, reject)
RetryAfter == 200
Tries == 25

\* connecting.tries: the argument tries of the running tryConnect;
\* attempts: the calls of net.connect so far (the sockets are numbered by
\* them); socket: the state of the latest socket ("connecting", "connected",
\* "failed"); timer: the delay of the pending setTimeout, 0 for none;
\* promise, value: the promise waitForSocket returned; connected: history,
\* the first socket that connected, 0 for none; resolves, rejects: history,
\* the calls of resolve and of reject so far.

\* resolve / reject of the promise: only the first call settles it.
SettlePromise(c, promise, value) ==
    LET called == IF promise = "resolved"
                  THEN [ c EXCEPT !.resolves = @ + 1 ]
                  ELSE [ c EXCEPT !.rejects = @ + 1 ]
    IN  IF c.promise = "pending"
        THEN [ called EXCEPT !.promise = promise, !.value = value ]
        ELSE called

\* launcher.ts:230: net.connect(port), with the handlers of lines 231-238.
tryConnect(c, tries) ==
    [ c EXCEPT !.phase = "connecting", !.tries = tries,
               !.attempts = @ + 1, !.socket = "connecting", !.timer = 0 ]

\* A slip in launcher.ts:233: one retry too many.
onSocketError_OneMore(c) ==
    IF c.tries >= 0
    THEN [ c EXCEPT !.socket = "failed", !.timer = RetryAfter ]
    ELSE SettlePromise([ c EXCEPT !.socket = "failed" ], "rejected", c.attempts)

\* launcher.ts:232-238: the 'error' handler of the socket.
onSocketError(c) ==
    IF c.tries > 0
    THEN [ c EXCEPT !.socket = "failed", !.timer = RetryAfter ]
    ELSE SettlePromise([ c EXCEPT !.socket = "failed" ], "rejected", c.attempts)

\* launcher.ts:116-121
waitForSocket ==
    /\ connecting.phase = "idle"
    /\ connecting' = tryConnect(connecting, Tries)
    /\ UNCHANGED << nextThreadId, threadsById, bpVars, thVars, regVars, issued,
                    removed, frontVars, disconnect, launcher, stackframe, fetching,
                    registeredFrames >>

\* launcher.ts:231: the socket emits 'connect'.
SocketConnect ==
    /\ connecting.socket = "connecting"
    /\ connecting' =
           SettlePromise([ connecting EXCEPT
                             !.socket = "connected",
                             !.connected =
                                 IF @ = 0 THEN connecting.attempts ELSE @ ],
                         "resolved", connecting.attempts)
    /\ UNCHANGED << nextThreadId, threadsById, bpVars, thVars, regVars, issued,
                    removed, frontVars, disconnect, launcher, stackframe, fetching,
                    registeredFrames >>

\* The socket emits 'error': the connection was refused, or it broke after
\* it was made (the handler of line 232 stays on the socket).
SocketError ==
    /\ connecting.socket \in {"connecting", "connected"}
    /\ connecting' = onSocketError(connecting)
    /\ UNCHANGED << nextThreadId, threadsById, bpVars, thVars, regVars, issued,
                    removed, frontVars, disconnect, launcher, stackframe, fetching,
                    registeredFrames >>

\* launcher.ts:234: the timer fires and tryConnect runs with tries - 1.
RetryTimer ==
    /\ connecting.timer # 0
    /\ connecting' = tryConnect(connecting, connecting.tries - 1)
    /\ UNCHANGED << nextThreadId, threadsById, bpVars, thVars, regVars, issued,
                    removed, frontVars, disconnect, launcher, stackframe, fetching,
                    registeredFrames >>

\* Constant ranges for the parameters of the actions; each action checks
\* itself that its thread, reconciliation or request exists.
ThreadIds == 1..MaxThreads
ReconIds == 1..(MaxRequests * MaxThreads + MaxSources)
ActorNames == 1..((MaxRequests * MaxThreads + MaxSources) * MaxLen)
SetOps == [ index : 0..(MaxLen - 1), requestedLine : Lines ]
FrameIds == 1..MaxFrames
ProviderIds == 1..MaxProviders

\* The frames the debuggee reports in a stack trace of the session: call
\* frames in one of the sources.
SessionFrames ==
    { Frame("call", TRUE, "f", actor, 1, 0, Absent) : actor \in 1..MaxSources }

Stacks ==
    UNION { [ 1..n -> SessionFrames ] : n \in 0..MaxStack }

\* What fetchStackFrames can settle with: an error, or a stack (which is
\* empty when the reply lists no frame).
FetchOutcomes ==
    { [ ok |-> FALSE, frames |-> << >> ] } \cup
    { [ ok |-> TRUE, frames |-> s ] : s \in Stacks }

\* The same with every frame in the first source: the handle registries do
\* not look into the frames they hold.
FetchOutcomesInOneSource ==
    { f \in FetchOutcomes : \A i \in 1..Len(f.frames) : f.frames[i].actor = 1 }

\* The breakpoint side of the session: tabs attach, sources appear,
\* setBreakpoints requests arrive, the thread controller runs the queued
\* reconciliations and the debuggee answers their requests in any order,
\* with success or failure.  Thread exit, user pauses, continue/step requests
\* and the handle registries are followed in SpecRegistry and SpecRequests.
Next ==
    \/ TabAttached
    \/ \E t \in ThreadIds, u \in Urls : onNewSource(t, u)
    \/ \E p \in Paths, l \in LineLists :
           \E b \in BreakpointLists(l) : setBreakPointsRequest(p, l, b)
    \/ \E t \in ThreadIds : InterruptPaused(t)
    \/ \E t \in ThreadIds : StartWork(t)
    \/ \E r \in ReconIds : Diff(r)
    \/ \E r \in ReconIds, a \in ActorNames, ok \in BOOLEAN : DeleteReply(r, a, ok)
    \/ \E r \in ReconIds, op \in SetOps, ok \in BOOLEAN :
           SetBreakpointReply(r, op, ok, BreakableLine(op.requestedLine))
    \/ \E r \in ReconIds : Settle(r)
    \/ \E r \in ReconIds : Respond(r)

Spec == Init /\ [][Next]_vars

\* The same with progress: the session does not stop while a promise
\* reaction is due or the debuggee still owes an answer.
SpecLive == Init /\ [][Next]_vars /\ WF_vars(Next)

\* The session seen from its handle registries: threads come and go and
\* pause, stackTrace requests take frame ids, frame adapters and variables
\* providers register, frame adapters are disposed and pauses end.  The
\* requests that look handles up are followed in SpecRequests.
NextRegistry ==
    \/ TabAttached
    \/ \E t \in ThreadIds : onExited(t)
    \/ \E t \in ThreadIds : onPaused(t)
    \/ \E t \in ThreadIds : stackTraceRequest(t)
    \/ \E i \in 1..MaxFetching, f \in FetchOutcomesInOneSource : stackTraceReply(i, f)
    \/ \E t \in ThreadIds : continueRequest(t)
    \/ \E t \in ThreadIds : nextRequest(t)
    \/ \E t \in ThreadIds : stepInRequest(t)
    \/ \E t \in ThreadIds : stepOutRequest(t)
    \/ \E f \in SessionFrames, t \in ThreadIds : f.actor = 1 /\ NewFrameAdapter(f, t)
    \/ \E h \in FrameIds : dispose(h)
    \/ registerVariablesProvider

SpecRegistry == Init /\ [][NextRegistry]_vars

\* The session seen from the front protocol: threads come and go and pause,
\* variables providers register, and every kind of request that names a
\* thread, a frame or a variables provider arrives, with a handle the
\* session knows or with one it does not know.  No evaluation is ever sent
\* to the debuggee, because no frame gets into framesById.
NextRequests ==
    \/ TabAttached
    \/ \E t \in ThreadIds : onExited(t)
    \/ \E t \in ThreadIds : onPaused(t)
    \/ \E t \in ThreadIds : pauseRequest(t)
    \/ \E t \in ThreadIds : continueRequest(t)
    \/ \E t \in ThreadIds : nextRequest(t)
    \/ \E t \in ThreadIds : stepInRequest(t)
    \/ \E t \in ThreadIds : stepOutRequest(t)
    \/ \E t \in ThreadIds : stackTraceRequest(t)
    \/ \E i \in 1..MaxFetching, f \in FetchOutcomesInOneSource : stackTraceReply(i, f)
    \/ registerVariablesProvider
    \/ \E h \in FrameIds : scopesRequest(h)
    \/ \E h \in ProviderIds : variablesRequest(h)
    \/ \E i \in 1..MaxFetching, ok \in BOOLEAN : variablesReply(i, ok)
    \/ \E h \in FrameIds \cup {Undefined} : evaluateRequest(h)

SpecRequests == Init /\ [][NextRequests]_vars

\* Stack traces: threads attach, their sources appear, and stackTrace
\* requests are answered from what the debuggee reports.
NextStackTrace ==
    \/ TabAttached
    \/ \E t \in ThreadIds, u \in Urls : onNewSource(t, u)
    \/ \E t \in ThreadIds : onPaused(t)
    \/ \E t \in ThreadIds : stackTraceRequest(t)
    \/ \E i \in 1..MaxFetching, f \in FetchOutcomes : stackTraceReply(i, f)

SpecStackTrace == Init /\ [][NextStackTrace]_vars

\* The end of the session: threads attach, pause and exit, the disconnect
\* request arrives and the thread actors answer their detach requests in any
\* order.
NextDisconnect ==
    \/ TabAttached
    \/ \E t \in ThreadIds : onPaused(t)
    \/ \E t \in ThreadIds : onExited(t)
    \/ disconnectRequest
    \/ \E t \in ThreadIds, ok \in BOOLEAN : DetachReply(t, ok)

SpecDisconnect == Init /\ [][NextDisconnect]_vars

\* launchFirefox, for every launch configuration and every answer of its
\* surroundings: the call returns, the profile finder and installAddon
\* answer in later turns of the event loop, and the reaction that spawns
\* Firefox runs when the profile is prepared.
InitLaunch ==
    /\ InitSession
    /\ launcher \in [ phase : {"ready"}, config : LaunchConfigurations,
                       addonId : BOOLEAN, env : LaunchEnvironments,
                       result : {<< >>}, prepare : {"none"},
                       awaiting : {"none"}, chained : {FALSE},
                       mkdir : {FALSE} ]
    /\ connecting = NoConnect
    /\ stackframe = NoStackframe
    /\ registeredFrames = NewRegistry

NextLaunch ==
    \/ Launch
    \/ onGetPath
    \/ onInstallAddon
    \/ ProfilePrepared

SpecLaunch == InitLaunch /\ [][NextLaunch]_vars

\* The frame kinds of the back protocol, and two it does not have.
FrameTypes ==
    { "call", "global", "eval", "clientEvaluate", "wasmcall", "block", "" }

\* Every frame description over the frame kinds.
AllFrames ==
    { Frame(type, named, displayName, 1, 1, column, this) :
        type \in FrameTypes, named \in BOOLEAN, displayName \in {"", "f"},
        column \in {Absent, 0, 1}, this \in {Absent, 1} }

\* A frame adapter of every frame description, built with a frame registry
\* that has issued any number of handles before, on a thread with and
\* without a source adapter for the frame's source actor.
InitStackframe ==
    /\ InitSession
    /\ launcher = NoLaunch
    /\ connecting = NoConnect
    /\ \E id \in FrameIds, frame \in AllFrames, sourceAdapter \in {Undefined, 1} :
           LET made == FrameAdapter([ NewRegistry EXCEPT !.next = id ], frame, 1)
           IN  /\ registeredFrames = made.registry
               /\ stackframe = [ phase |-> "ready",
                                 frameAdapter |-> made.frameAdapter,
                                 sourceAdapter |-> sourceAdapter,
                                 result |-> << >> ]

\* getStackframe and dispose of that frame adapter.
NextStackframe ==
    \/ Convert
    \/ \E h \in FrameIds : dispose(h)

SpecStackframe == InitStackframe /\ [][NextStackframe]_vars

\* waitForSocket: every socket connects or fails, a connected socket may
\* still break, and the retry timers fire.
NextConnect ==
    \/ waitForSocket
    \/ SocketConnect
    \/ SocketError
    \/ RetryTimer

SpecConnect == Init /\ [][NextConnect]_vars

\* ============================================================== claims
\* Helpers over the history kept in the reconciliation records.
Recons == 1..Len(recons)
HasDiffed(r) == recons[r].pc \in {"diffed", "done"}
HasBegun(r) == recons[r].pc \in {"waiting", "diffed", "done"}
Running(r) == recons[r].pc \in {"waiting", "diffed"}
\* The lines the setBreakpoints request behind reconciliation r asked for.
RequestedLines(r) == requested[recons[r].breakpointsToSet]
Adapters(list) == { list[i] : i \in { j \in 1..Len(list) : list[j] # Hole } }
\* The reconciliation requested immediately before r for the same source, 0 = none.
Pred(r) ==
    LET earlier == { q \in 1..(r - 1) :
                       recons[q].sourceAdapter = recons[r].sourceAdapter }
    IN  IF earlier = {} THEN 0 ELSE CHOOSE q \in earlier : \A x \in earlier : x <= q

\* C1: every reconciliation that completes successfully returns a list with
\* one entry per requested line, and entry i is a breakpoint adapter whose
\* requestedLine is the i-th requested line.
C1_ResultIndexedLikeRequest ==
    \A r \in Recons :
        recons[r].state = "fulfilled" =>
            /\ Len(recons[r].newBreakpoints) = Len(RequestedLines(r))
            /\ \A i \in 1..Len(recons[r].newBreakpoints) :
                   /\ recons[r].newBreakpoints[i] # Hole
                   /\ recons[r].newBreakpoints[i].requestedLine = RequestedLines(r)[i]

\* C2: a reconciliation deletes exactly the old breakpoints whose requestedLine
\* is not requested any more, sets exactly the requested lines that had no old
\* breakpoint, and keeps the adapter (and so the actor) of every other one.
C2_MinimalDiff ==
    \A r \in Recons :
        HasDiffed(r) =>
            LET old == Adapters(recons[r].oldBreakpoints)
                new == Range(RequestedLines(r))
            IN  /\ recons[r].removedIssued =
                       { b.actor : b \in { x \in old : x.requestedLine \notin new } }
                /\ { op.requestedLine : op \in recons[r].setIssued } =
                       { l \in new : \A b \in old : b.requestedLine # l }
                /\ \A b \in old :
                       b.requestedLine \in new =>
                           b \in Adapters(recons[r].newBreakpoints)

\* C3: reconciling a source for the list it was last successfully reconciled
\* for issues no delete and no set request and returns the same list.
C3_Idempotent ==
    \A r \in Recons :
        ( /\ HasDiffed(r)
          /\ Pred(r) # 0
          /\ recons[Pred(r)].state = "fulfilled"
          /\ RequestedLines(Pred(r)) = RequestedLines(r) ) =>
            /\ recons[r].removedIssued = {}
            /\ recons[r].setIssued = {}
            /\ recons[r].state = "fulfilled" =>
                   recons[r].newBreakpoints = recons[Pred(r)].newBreakpoints

\* C4: two calls of runOnPausedThread on one thread never have their work
\* units running together: the work of the later call has begun only if every
\* earlier call's work on that thread has invoked its resume callback.
C4_WorkSerializedPerThread ==
    \A r1, r2 \in Recons :
        ( r1 < r2 /\ recons[r1].thread = recons[r2].thread /\ HasBegun(r2) ) =>
            recons[r1].resumeCalls >= 1

\* C4's case: a call made while an earlier work unit of the same thread (for
\* the same source) was unfinished has begun its work.
C4_Witness ==
    \E r \in Recons : recons[r].sourceBusy /\ HasBegun(r)

\* C5: a reconciliation computes its diff against exactly the list produced by
\* the reconciliation requested immediately before it for the same source (the
\* empty list for the first), and only once that one has settled with none of
\* its delete/set requests outstanding.
C5_DiffAgainstPredecessor ==
    \A r \in Recons :
        HasDiffed(r) =>
            /\ recons[r].base = Pred(r)
            /\ Pred(r) = 0 => recons[r].oldBreakpoints = << >>
            /\ Pred(r) # 0 =>
                   /\ recons[Pred(r)].state = "fulfilled"
                   /\ recons[r].oldBreakpoints = recons[Pred(r)].newBreakpoints
                   /\ recons[Pred(r)].removedPending = {}
                   /\ recons[Pred(r)].setPending = {}

\* C5's case: a reconciliation requested while an earlier one of its source was
\* unfinished has computed its diff against a non-empty list.
C5_Witness ==
    \E r \in Recons :
        /\ recons[r].sourceBusy
        /\ HasDiffed(r)
        /\ recons[r].oldBreakpoints # << >>

\* C6: every reconciliation whose work has begun invokes its resume callback,
\* exactly once: one that has not invoked it yet is not left waiting on a
\* rejected currentBreakpoints (which nothing reacts to), and none invokes
\* it twice.
C6_ResumeAlwaysInvoked ==
    \A r \in Recons :
        /\ recons[r].pc = "waiting" => PromiseState(recons[r].base) # "rejected"
        /\ recons[r].resumeCalls <= 1
        /\ recons[r].pc = "done" => recons[r].resumeCalls = 1

\* C7: once a reconciliation has invoked its resume callback, none of its
\* delete or set-breakpoint requests is outstanding.
C7_QuiescentAtResume ==
    \A r \in Recons :
        recons[r].resumeCalls >= 1 =>
            recons[r].removedPending = {} /\ recons[r].setPending = {}

\* C8: the reconciliation started by a new-source event sets a breakpoint at
\* every line of the latest setBreakpoints request for the url.
C8_NewSourceGetsRequestedLines ==
    \A r \in Recons :
        ( recons[r].request = 0 /\ HasDiffed(r) ) =>
            { op.requestedLine : op \in recons[r].setIssued } =
                Range(RequestedLines(r))

\* C9: an adapter stored for an acknowledged set-breakpoint request has the
\* requested line of the request and the acknowledged actual line (the
\* requested line when the ack carries no actual location); and when the
\* reconciliation a setBreakpoints response waits for has succeeded and the
\* response has been sent, the response is a success with one entry per
\* index of the resolved list and reports every adapter of the list, at its
\* index, verified at the acknowledged actual line.
C9_ActualLineReported ==
    /\ \A r \in Recons : \A b \in Adapters(recons[r].newBreakpoints) :
           /\ b.actor \in DOMAIN ackLog
           /\ b.requestedLine = ackLog[b.actor].requestedLine
           /\ b.actualLine = IF ackLog[b.actor].actualLocation = Undefined
                             THEN ackLog[b.actor].requestedLine
                             ELSE ackLog[b.actor].actualLocation
    /\ \A r \in Recons :
           ( /\ recons[r].responds
             /\ recons[r].state = "fulfilled"
             /\ response[recons[r].request].sent = 1 ) =>
               LET resp == response[recons[r].request]
                   list == recons[r].newBreakpoints
               IN  /\ resp.success
                   /\ Len(resp.body) = Len(list)
                   /\ \A i \in 1..Len(list) :
                          list[i] # Hole =>
                              LET ack == ackLog[list[i].actor]
                              IN  resp.body[i] = Breakpoint(TRUE,
                                      IF ack.actualLocation = Undefined
                                      THEN ack.requestedLine
                                      ELSE ack.actualLocation)

\* C9's case: a response reports a breakpoint verified at a relocated line.
C9_Witness ==
    \E q \in 1..Len(response) :
        /\ response[q].sent = 1
        /\ response[q].success
        /\ \E i \in 1..Len(response[q].body) :
               /\ response[q].body[i].verified
               /\ response[q].body[i].line = requested[q][i] + 1

\* C10: in each registry (threads, frame adapters, variables providers) the
\* handles are issued as 1, 2, 3, ... so no handle is issued twice; a live
\* handle resolves to the owner it was issued for; a removed handle is not
\* found.
C10_HandlesIncreasingAndUnique ==
    /\ \A k \in 1..Len(issued.threads) : issued.threads[k] = k
    /\ \A k \in 1..Len(issued.frames) : issued.frames[k].id = k
    /\ \A k \in 1..Len(issued.providers) :
           issued.providers[k].variablesProviderId = k
    /\ threadsById \subseteq Range(issued.threads)
    /\ \A h \in DOMAIN registeredFrames.map :
           /\ h \in 1..Len(issued.frames)
           /\ registeredFrames.map[h] = issued.frames[h]
    /\ \A h \in DOMAIN framesById : h < nextFrameId
    /\ \A h \in DOMAIN variablesProvidersById :
           /\ h \in 1..Len(issued.providers)
           /\ variablesProvidersById[h] = issued.providers[h]
    /\ removed.threads \cap threadsById = {}
    /\ removed.frames \cap DOMAIN registeredFrames.map = {}
    /\ removed.frames \cap DOMAIN framesById = {}
    /\ removed.providers \cap DOMAIN variablesProvidersById = {}

\* C10's case: a frame adapter was disposed and a thread handle was removed,
\* and handles issued after that are live in each registry.
C10_Witness ==
    /\ removed.frames # {}
    /\ \E h \in DOMAIN registeredFrames.map : \A x \in removed.frames : x < h
    /\ removed.threads # {}
    /\ \E t \in threadsById : \A x \in removed.threads : x < t
    /\ Len(issued.providers) > 1
    /\ DOMAIN variablesProvidersById # {}

\* C12: after a continue, next, stepIn or stepOut request no variables
\* provider handle issued before it is in the provider map, and a variables
\* request for such a handle is answered with a failure.
C12_ProviderHandlesInvalidatedOnResume ==
    /\ \A h \in 1..resumeMark.providers : h \notin DOMAIN variablesProvidersById
    /\ ( /\ lastResponse.command = "variables"
         /\ lastResponse.handle \in 1..resumeMark.providers )
       => lastResponse.outcome = "failure"

\* The requests that name a handle the session does not know.
UnknownHandleRequest ==
    \/ \E t \in ThreadIds \ threadsById :
           \/ pauseRequest(t)
           \/ continueRequest(t)
           \/ nextRequest(t)
           \/ stepInRequest(t)
           \/ stepOutRequest(t)
           \/ stackTraceRequest(t)
    \/ \E h \in FrameIds \ DOMAIN framesById :
           \/ scopesRequest(h)
           \/ evaluateRequest(h)
    \/ \E h \in ProviderIds \ DOMAIN variablesProvidersById :
           variablesRequest(h)

\* C13: a request that names an unknown handle is answered with a failed
\* response that carries a message, and it leaves the thread map, the frame
\* map, the variables provider map and the outstanding requests as they
\* were.
C13_UnknownHandleLeavesStateAlone ==
    [][ UnknownHandleRequest =>
            /\ lastResponse'.outcome = "failure"
            /\ lastResponse'.message # ""
            /\ threadsById' = threadsById
            /\ framesById' = framesById
            /\ variablesProvidersById' = variablesProvidersById
            /\ fetching' = fetching ]_vars

\* The reply to fetchStackFrames of a stackTrace request arrives.
StackTraceReplied ==
    \E i \in 1..MaxFetching, f \in FetchOutcomes : stackTraceReply(i, f)

\* C17: when the frames of a stackTrace request for a known thread arrive,
\* the request is answered, with the stack frames of the fetched frames in
\* order, each registered under its id, or with a failure and its message.
C17_StackTraceAnswered ==
    [][ StackTraceReplied =>
            \/ /\ lastResponse'.outcome = "success"
               /\ \A i \in 1..Len(lastResponse'.body) :
                      /\ lastResponse'.body[i].id \in DOMAIN framesById'
                      /\ framesById'[lastResponse'.body[i].id].threadAdapter =
                             lastResponse'.handle
                      /\ i > 1 => lastResponse'.body[i].id =
                                      lastResponse'.body[i - 1].id + 1
            \/ /\ lastResponse'.outcome = "failure"
               /\ lastResponse'.message # "" ]_vars

\* C14: the disconnect response is sent at most once, as a success, when no
\* detach request is pending any more; and it has been sent once every
\* detach request has completed.
C14_DisconnectAfterAllDetached ==
    /\ Len(disconnect.responses) <= 1
    /\ \A i \in 1..Len(disconnect.responses) :
           /\ disconnect.responses[i].success
           /\ disconnect.responses[i].pending = {}
    /\ ( /\ disconnect.all # "none"
         /\ DetachPending(disconnect.detach) = {} )
       => Len(disconnect.responses) = 1

\* Nothing is left to happen for a call of launchFirefox that has returned.
LaunchQuiescent ==
    /\ launcher.phase = "launched"
    /\ launcher.awaiting = "none"
    /\ ~LaunchReactionDue

\* C15: the promise of launchFirefox is never rejected and is resolved, with
\* the child process or with an error message, once nothing is left to
\* happen; and Firefox is spawned exactly when it is resolved with the child
\* process.
C15_LaunchAlwaysResolves ==
    launcher.phase = "launched" =>
        /\ launcher.result.settled # "rejected"
        /\ LaunchQuiescent => launcher.result.settled = "resolved"
        /\ launcher.result.settled = "resolved" => launcher.result.value # ""
        /\ launcher.result.spawned <=> launcher.result.value = "childProc"

\* C18: waitForSocket makes at most 26 connection attempts, each retry 200
\* ms after a failed attempt; its promise resolves with the first socket
\* that connected, and rejects, with the error of the last attempt, exactly
\* when all 26 attempts have failed without a connection.
C18_BoundedRetries ==
    /\ connecting.attempts <= Tries + 1
    /\ connecting.timer \in {0, RetryAfter}
    /\ connecting.timer # 0 =>
           connecting.socket = "failed" /\ connecting.attempts <= Tries
    /\ connecting.connected # 0 <=> connecting.promise = "resolved"
    /\ connecting.promise = "resolved" =>
           connecting.value = connecting.connected
    /\ connecting.promise = "rejected" <=>
           /\ connecting.connected = 0
           /\ connecting.attempts = Tries + 1
           /\ connecting.socket = "failed"
    /\ connecting.promise = "rejected" => connecting.value = Tries + 1

\* C18's case: all 26 attempts failed and the promise is rejected.
C18_Witness ==
    /\ connecting.promise = "rejected"
    /\ connecting.attempts = Tries + 1
    /\ connecting.timer = 0

\* C19: the display name of a stack frame is decided by the frame kind
\* alone: the display name of a call frame, or "[anonymous function]" when
\* it is empty or missing; "[Global]"; "[eval]" for eval and clientEvaluate;
\* "[wasm]"; and "[k]" for any other kind k, which is logged and still
\* converted.
C19_FrameNaming ==
    stackframe.phase = "converted" =>
        LET frame == stackframe.frameAdapter.frame
            result == stackframe.result
            name == result.value.name
        IN  /\ result.thrown <=> stackframe.sourceAdapter = Undefined
            /\ ~result.thrown =>
                   /\ result.value.id = stackframe.frameAdapter.id
                   /\ frame.type = "call" /\ frame.named /\ frame.displayName # ""
                          => name = frame.displayName
                   /\ frame.type = "call" /\ (~frame.named \/ frame.displayName = "")
                          => name = "[anonymous function]"
                   /\ frame.type = "global" => name = "[Global]"
                   /\ frame.type = "eval" => name = "[eval]"
                   /\ frame.type = "clientEvaluate" => name = "[eval]"
                   /\ frame.type = "wasmcall" => name = "[wasm]"
                   /\ frame.type = "block" => name = "[block]"
                   /\ frame.type = "" => name = "[]"
                   /\ result.logged # << >> <=> frame.type \in {"block", ""}

\* C19's case: a frame of an unknown kind was converted, named after its
\* kind and logged.
C19_Witness ==
    /\ stackframe.phase = "converted"
    /\ stackframe.frameAdapter.frame.type = "block"
    /\ ~stackframe.result.thrown
    /\ stackframe.result.value.name = "[block]"
    /\ stackframe.result.logged # << >>

\* C16: every setBreakpoints request gets a response, and only one.
C16_EveryRequestAnswered ==
    /\ [](\A q \in 1..Len(response) : response[q].sent <= 1)
    /\ \A q \in 1..MaxRequests :
           (Len(response) >= q) ~> (Len(response) >= q /\ response[q].sent = 1)

\* C20: when a setBreakpoints request was reconciled on two or more threads
\* and all of these reconciliations succeeded, each of them left its source
\* adapter with one breakpoint adapter per requested line, and no other.
C20_SameBreakpointsOnEveryThread ==
    \A q \in 1..Len(requested) :
        LET onThreads == { r \in Recons : recons[r].request = q }
        IN  ( /\ \E r1, r2 \in onThreads : recons[r1].thread # recons[r2].thread
              /\ \A r \in onThreads : recons[r].state = "fulfilled" ) =>
                \A r \in onThreads :
                    /\ { b.requestedLine : b \in Adapters(recons[r].newBreakpoints) }
                           = Range(requested[q])
                    /\ Cardinality(Adapters(recons[r].newBreakpoints))
                           = Len(requested[q])

\* C23: resolve and reject of a waitForSocket call are invoked at most once
\* together, and once the promise is resolved the socket it was resolved
\* with is the last one tryConnect opened: no retry is pending, no further
\* connection is made and reject is never called.
C23_SettlesOnceAndStops ==
    /\ connecting.resolves + connecting.rejects <= 1
    /\ connecting.promise = "resolved" =>
           /\ connecting.attempts = connecting.connected
           /\ connecting.timer = 0
           /\ connecting.rejects = 0
====
